---------------------------- MODULE Spec2Model ----------------------------
(***************************************************************************)
(* ll_mtproto/network/mtproto.py: the AuthKey object, the message-id      *)
(* clock, the three-round Diffie-Hellman handshake guarded by             *)
(* AuthKey.auth_key_lock, and the encrypted read / write pipeline guarded  *)
(* by MTProto._read_message_lock.                                          *)
(*                                                                         *)
(* Every coroutine is a process with a position pc[p]; one action is the   *)
(* code between two awaits.  An asyncio.Lock that is free is taken without *)
(* suspending, so taking a free lock is part of the step that reaches it.  *)
(* Consecutive awaits of offloaded computations with no statement between  *)
(* them are one position.                                                  *)
(* Numbers that cannot be explored at their real width (2048-bit DH, 2^30  *)
(* clock ticks, the 64-entry replay window) are scaled down and named.     *)
(***************************************************************************)
EXTENDS Integers, Sequences, FiniteSets, TLC

(***************************** bounds *************************************)
\* calls (read, write, box_message) the coroutines may make in all
MaxCalls == 2
\* largest DH exponent b drawn by secrets.randbits(2048)
MaxB == 3
\* largest wall-clock reading int(time.time() * 2 ** 30) above ClockBase
MaxClock == 1
\* capacity of the replay window (collections.deque(maxlen=64)), scaled
WindowLen == 1
\* largest length in bytes of a body handed to box_message
MaxBody == 33

(*********************** scaled program constants *************************)
\* width of the DH numbers: the source's 2048
DhBits == 5
\* the source's 64 in 2 ** (2048 - 64)
DhSlack == 3
\* number of random low bits or-ed into the clock: the source's 12
RandBits == 1
\* clock ticks per second after the * 4: the source's 2 ** 32
TicksPerSecond == 8
\* a clock reading around which the model's wall clock moves
ClockBase == 1000

(***************************** values *************************************)
None == <<>>
Some(x) == <<x>>

Free == "free"

\* two coroutines use session A, one uses session B; both sessions were
\* constructed with the same AuthKey object
Procs == {"a1", "a2", "b1"}
Sessions == {"A", "B"}
SessionOf(p) == IF p = "b1" THEN "B" ELSE "A"

Nonces == {1, 2}
SessionIds == {1, 2}
\* self._public_rsa_key.fingerprint
OurFingerprint == 1

RECURSIVE Pow2(_)
Pow2(n) == IF n = 0 THEN 1 ELSE 2 * Pow2(n - 1)

RECURSIVE BitOr(_, _)
BitOr(a, b) ==
    IF a = 0 THEN b
    ELSE IF b = 0 THEN a
    ELSE (IF (a % 2 = 1) \/ (b % 2 = 1) THEN 1 ELSE 0) + 2 * BitOr(a \div 2, b \div 2)

RECURSIVE BitXor(_, _)
BitXor(a, b) ==
    IF a = 0 THEN b
    ELSE IF b = 0 THEN a
    ELSE ((a + b) % 2) + 2 * BitXor(a \div 2, b \div 2)

RECURSIVE PowMod(_, _, _)
PowMod(g, e, m) == IF e = 0 THEN 1 % m ELSE (g * PowMod(g, e - 1, m)) % m

RECURSIVE SumSeq(_)
SumSeq(s) == IF s = <<>> THEN 0 ELSE Head(s) + SumSeq(Tail(s))

\* byteutils.to_bytes: the big-endian bytes of a non-negative integer
RECURSIVE to_bytes(_)
to_bytes(n) == IF n < 256 THEN <<n>> ELSE Append(to_bytes(n \div 256), n % 256)

\* byteutils.sha1: a 20-byte digest; a fixed mixing function stands for SHA1
sha1(data) == [i \in 1..20 |-> (SumSeq(data) * (i + 2) + 7 * i + Len(data)) % 256]

\* data[-8:]
Last8(s) == SubSeq(s, Len(s) - 7, Len(s))

_get_auth_key_id(auth_key) == Last8(sha1(auth_key))

\* primes.is_safe_dh_prime: a lookup in the table of known safe primes
SafePrimes == {<<2, 23>>}
is_safe_dh_prime(g, dh_prime) == <<g, dh_prime>> \in SafePrimes

\* primes.factorize: pq = p * q with p < q
factorize(pq) ==
    CHOOSE f \in (2..pq) \X (2..pq) : f[1] * f[2] = pq /\ f[1] < f[2]

(***************************** state **************************************)
VARIABLES
    ak,               \* the AuthKey object the sessions share
    auth_key_lock,    \* AuthKey.auth_key_lock: Free or the coroutine holding it
    read_lock,        \* MTProto._read_message_lock of each session
    last_message_id,  \* MTProto._last_message_id of each session
    last_msg_ids,     \* MTProto._last_msg_ids of each session (oldest first)
    returned_ids,     \* the last two values _get_message_id returned, per session
    pc,               \* where each coroutine is suspended
    op,               \* the public call each coroutine is inside
    loc,              \* each coroutine's local variables
    sent,             \* handshake frames the coroutine's current call wrote to the link
    ended,            \* <<coroutine, result, input>> of the call that ended in
                      \* the last step; input: what a failed check looked at
    boxed,            \* the message box_message returned to the coroutine, if any
    wire,             \* the encrypted frames handed to each link, in order: the msg_id
                      \* and the body length inside, whether auth_key was set when
                      \* the msg_id was made, and the length of the frame
    calls             \* calls (read, write, box_message) the coroutines may still make

vars == <<ak, auth_key_lock, read_lock, last_message_id, last_msg_ids, returned_ids,
          pc, op, loc, sent, ended, boxed, wire, calls>>

locks == <<auth_key_lock, read_lock>>
session == <<last_message_id, last_msg_ids, returned_ids>>
callers == <<boxed, wire, calls>>

NoMessage == [salt |-> None, session_id |-> None, msg_id |-> 0, body |-> 0]

\* no message from box_message; body is the length of the serialized body,
\* key_set tells whether auth_key was set when _get_message_id made msg_id
NoBoxed == [msg_id |-> 0, body |-> 0, key_set |-> FALSE]

NoLocals ==
    [nonce |-> 0, server_nonce |-> 0, new_nonce |-> 0, pq |-> 0, p |-> 0, q |-> 0,
     b |-> 0, g |-> 0, g_a |-> 0, dh_prime |-> 0, g_b |-> 0,
     res_pq |-> None, params |-> None, answer_hash |-> None, params2 |-> None,
     auth_key |-> None, auth_key_id |-> None,
     server_auth_key_id |-> None, msg_key |-> 0, message |-> NoMessage, padding |-> 0,
     arg |-> NoBoxed, waited |-> FALSE]

\* AuthKey.__init__ with its defaults: seq_no = None or -1
NewAuthKey(auth_key, auth_key_id, session_id, server_salt) ==
    [auth_key |-> auth_key, auth_key_id |-> auth_key_id, session_id |-> session_id,
     server_salt |-> server_salt, seq_no |-> -1]

\* AuthKey.clone
clone(self, new_session_id) ==
    NewAuthKey(self.auth_key, self.auth_key_id, Some(new_session_id), self.server_salt)

\* AuthKey.__getstate__
getstate(self) == <<self.auth_key, self.server_salt>>

\* bool(auth_key): None and b"" are both false
Truthy(auth_key) == auth_key # None /\ auth_key # Some(<<>>)

\* AuthKey.__setstate__ with the (auth_key, server_salt) pair
setstate(state, new_session_id) ==
    NewAuthKey(state[1],
               IF Truthy(state[1]) THEN Some(_get_auth_key_id(state[1][1])) ELSE None,
               Some(new_session_id), state[2])

\* AuthKey.__setstate__ with the legacy form, the auth_key bytes alone
setstate_legacy(state, new_session_id, random8) ==
    NewAuthKey(Some(state),
               IF state # <<>> THEN Some(_get_auth_key_id(state)) ELSE None,
               Some(new_session_id), Some(random8))

(************************* locks and call ends ****************************)
\* a lock that excludes nobody
LockIsFree_Always(lock) == TRUE

\* asyncio.Lock: the lock is not held
LockIsFree(lock) == lock = Free

\* coroutines queued in asyncio.Lock.acquire
AuthKeyLockWaiters == {q \in Procs : pc[q] = "k_wait"}
ReadLockWaitPcs == {"r_wait", "h_wait1", "h_wait2", "h_wait3"}
ReadLockWaiters(m) == {q \in Procs : SessionOf(q) = m /\ pc[q] \in ReadLockWaitPcs}

\* asyncio.Lock.acquire returns at once only when the lock is free and no
\* earlier caller is queued for it
CanAcquire(lock, waiters) == LockIsFree(lock) /\ waiters = {}

\* leaving the "async with" of the read lock alone
ReleaseAll_ReadLockOnly(p) ==
    /\ auth_key_lock' = auth_key_lock
    /\ read_lock' = [read_lock EXCEPT ![SessionOf(p)] = IF @ = p THEN Free ELSE @]

\* leaving every "async with" block p is inside
ReleaseAll(p) ==
    /\ auth_key_lock' = IF auth_key_lock = p THEN Free ELSE auth_key_lock
    /\ read_lock' = [read_lock EXCEPT ![SessionOf(p)] = IF @ = p THEN Free ELSE @]

\* no call ended in the last step
NoEnd == <<"none", "none", None>>

\* the call of p ends with result r (an error name, or "ok")
EndCallWith(p, r, input) ==
    /\ pc' = [pc EXCEPT ![p] = "idle"]
    /\ op' = [op EXCEPT ![p] = "none"]
    /\ loc' = [loc EXCEPT ![p] = NoLocals]
    /\ sent' = [sent EXCEPT ![p] = <<>>]
    /\ ended' = <<p, r, input>>

EndCall(p, r) == EndCallWith(p, r, None)

\* an exception that leaves the "async with" blocks without releasing
Raise_KeepingLocks(p, err) ==
    /\ EndCall(p, err)
    /\ UNCHANGED locks

\* an exception raised in p propagates out of read / write
Raise(p, err) ==
    /\ EndCall(p, err)
    /\ ReleaseAll(p)

\* a check on `input`, just read from the link, raises in p
RaiseOn(p, err, input) ==
    /\ EndCallWith(p, err, Some(input))
    /\ ReleaseAll(p)

\* p goes on to its next await, at `next`, with locals l
Advance(p, next, l) ==
    /\ pc' = [pc EXCEPT ![p] = next]
    /\ loc' = [loc EXCEPT ![p] = l]
    /\ UNCHANGED <<op, sent>>
    /\ ended' = NoEnd

\* "async with self._read_message_lock" reached with locals l, the read
\* locks being rl: take the lock and go on to `next`, or wait at `wait`
EnterReadLock(p, l, rl, wait, next) ==
    LET m == SessionOf(p) IN
    IF CanAcquire(rl[m], ReadLockWaiters(m))
    THEN /\ read_lock' = [rl EXCEPT ![m] = p]
         /\ pc' = [pc EXCEPT ![p] = next]
         /\ loc' = [loc EXCEPT ![p] = l]
    ELSE /\ read_lock' = rl
         /\ pc' = [pc EXCEPT ![p] = wait]
         /\ loc' = [loc EXCEPT ![p] = l]

\* len(message_inner_data), lines 385-402: salt, session_id, msg_id, seqno,
\* the length of the body, and the body
InnerLen(body) == 8 + 8 + 8 + 4 + 4 + body

\* a padding that only fills the last block
PaddingFor_FillOnly(len_inner) == (-len_inner) % 16

\* line 404: the length of os.urandom(-(len(message_inner_data) + 12) % 16 + 12)
PaddingFor(len_inner) == ((-(len_inner + 12)) % 16) + 12

\* len(full_message), lines 409-414: auth_key_id, msg_key, and the
\* ciphertext of message_inner_data + padding
FrameLen(len_inner, padding) == 8 + 16 + (len_inner + padding)

\* write, lines 397-407: message_inner_data and the padding are built; the
\* sha256, prepare_key and encrypt are awaited
WriteAfterKey(p, l, rl) ==
    /\ pc' = [pc EXCEPT ![p] = "w_encrypt"]
    /\ loc' = [loc EXCEPT ![p] =
                 [l EXCEPT !.message = [salt |-> ak.server_salt,
                                        session_id |-> ak.session_id,
                                        msg_id |-> l.arg.msg_id, body |-> l.arg.body],
                           !.padding = PaddingFor(InnerLen(l.arg.body))]]
    /\ read_lock' = rl

\* _get_auth_key returns (auth_key, auth_key_id), line 166, to read (line
\* 322) or to write (line 395), which run on to their next await
AfterGetAuthKey(p, kind, l, rl) ==
    LET l2 == [l EXCEPT !.auth_key = ak.auth_key, !.auth_key_id = ak.auth_key_id] IN
    IF kind = "read"
    THEN EnterReadLock(p, l2, rl, "r_wait", "r_auth_key_id")
    ELSE WriteAfterKey(p, l2, rl)

\* a _get_auth_key that never looks at the stored key
KeyMissing_Always(a) == TRUE

\* a _get_auth_key that looks at the stored auth_key_id
KeyMissing_IdMissing(a) == a.auth_key_id = None

\* "if self._auth_key.auth_key is None", line 163
KeyMissing(a) == a.auth_key = None

(**************************** inputs **************************************)
\* what the server may answer to req_pq
ResPQs ==
    [cons : {"resPQ", "rpc_error"}, nonce : Nonces, server_nonce : Nonces,
     pq : {15, 21}, server_public_key_fingerprints : {{1}, {2}}]

\* what the server may answer to req_DH_params
ServerDHParams ==
    [cons : {"server_DH_params_ok", "server_DH_params_fail"},
     nonce : Nonces, server_nonce : Nonces]

\* what params.encrypted_answer may decrypt and parse to
ServerDHInnerData ==
    [cons : {"server_DH_inner_data", "rpc_error"}, nonce : Nonces, server_nonce : Nonces,
     dh_prime : {21, 23}, g : {2, 3}, g_a : {1, 3, 8, 20, 22}]

\* what the server may answer to set_client_DH_params
DhGenAnswers == {"dh_gen_ok", "dh_gen_retry", "dh_gen_fail"}

\* the sha1 of the parsed answer bytes (hashlib.sha1 fed by async_stream_apply)
AnswerDigest(d) == (d.nonce + d.server_nonce + d.dh_prime + d.g + d.g_a) % 2
AnswerHashes == 0..1

(************************ calls and _get_auth_key *************************)
\* _get_auth_key, lines 161-166, from the moment the lock is acquired: with a
\* key present the lock is released again without an await in between
GetAuthKey(p, kind, l) ==
    IF KeyMissing(ak)
    THEN \* _create_auth_key: await in_thread(secrets.token_bytes, 16)
         /\ auth_key_lock' = p
         /\ pc' = [pc EXCEPT ![p] = "h_nonce"]
         /\ loc' = [loc EXCEPT ![p] = l]
         /\ read_lock' = read_lock
    ELSE /\ auth_key_lock' = auth_key_lock
         /\ AfterGetAuthKey(p, kind, l, read_lock)

\* read() or write(message) is called: its first statement is _get_auth_key
Call(p, kind) ==
    /\ pc[p] = "idle"
    /\ calls > 0
    /\ kind = "write" => boxed[p] # None
    /\ calls' = calls - 1
    /\ op' = [op EXCEPT ![p] = kind]
    /\ boxed' = [boxed EXCEPT ![p] = IF kind = "write" THEN None ELSE @]
    /\ LET l == [NoLocals EXCEPT !.arg = IF kind = "write" THEN boxed[p][1] ELSE NoBoxed] IN
       IF CanAcquire(auth_key_lock, AuthKeyLockWaiters)
       THEN GetAuthKey(p, kind, l)
       ELSE /\ pc' = [pc EXCEPT ![p] = "k_wait"]
            /\ loc' = [loc EXCEPT ![p] = [l EXCEPT !.waited = TRUE]]
            /\ UNCHANGED locks
    /\ UNCHANGED <<ak, session, sent, wire>>
    /\ ended' = NoEnd

\* a coroutine waiting in "async with self._auth_key.auth_key_lock" gets it
AuthKeyLockGranted(p) ==
    /\ pc[p] = "k_wait"
    /\ LockIsFree(auth_key_lock)
    /\ GetAuthKey(p, op[p], loc[p])
    /\ UNCHANGED <<ak, session, op, sent, callers>>
    /\ ended' = NoEnd

\* a coroutine waiting in "async with self._read_message_lock" gets it
ReadLockGranted(p) ==
    /\ pc[p] \in ReadLockWaitPcs
    /\ LockIsFree(read_lock[SessionOf(p)])
    /\ read_lock' = [read_lock EXCEPT ![SessionOf(p)] = p]
    /\ pc' = [pc EXCEPT ![p] = CASE pc[p] = "r_wait" -> "r_auth_key_id"
                                 [] pc[p] = "h_wait1" -> "h_recv1"
                                 [] pc[p] = "h_wait2" -> "h_recv2"
                                 [] OTHER -> "h_recv3"]
    /\ UNCHANGED <<ak, auth_key_lock, session, op, loc, sent, callers>>
    /\ ended' = NoEnd

(****************************** handshake *********************************)
\* _write_unencrypted_message has handed a frame to the link; then
\* _read_unencrypted_message enters the read lock (line 148)
SendThenRead(p, at, cons, l, wait, next) ==
    /\ pc[p] = at
    /\ sent' = [sent EXCEPT ![p] = Append(@, cons)]
    /\ EnterReadLock(p, l, read_lock, wait, next)
    /\ UNCHANGED <<ak, auth_key_lock, session, op, callers>>
    /\ ended' = NoEnd

\* line 169: nonce = await in_thread(secrets.token_bytes, 16); line 171
\* awaits the link write of req_pq
H_Nonce(p, E) ==
    /\ pc[p] = "h_nonce"
    /\ \E nonce \in E.nonces : Advance(p, "h_send1", [loc[p] EXCEPT !.nonce = nonce])
    /\ UNCHANGED <<ak, locks, session, callers>>

\* line 171 done, line 173 begins
H_Send1(p) == SendThenRead(p, "h_send1", "req_pq", loc[p], "h_wait1", "h_recv1")

\* a round 1 that accepts every answer
CheckResPQ_Accepting(res_pq) == "ok"

\* the checks on the answer to req_pq, lines 175-179: the error, or "ok"
CheckResPQ(res_pq) ==
    IF res_pq.cons # "resPQ" THEN "dh_exchange_failed"
    ELSE IF OurFingerprint \notin res_pq.server_public_key_fingerprints
         THEN "certificate_not_supported"
    ELSE "ok"

\* lines 173-187: res_pq arrives (the read lock is released) and is
\* checked; secrets.token_bytes(32) and factorize are awaited
H_Recv1(p, E) ==
    /\ pc[p] = "h_recv1"
    /\ \E res_pq \in E.res_pq :
         IF CheckResPQ(res_pq) # "ok"
         THEN Raise(p, CheckResPQ(res_pq))
         ELSE /\ Advance(p, "h_factorize",
                         [loc[p] EXCEPT !.res_pq = Some(res_pq),
                                        !.server_nonce = res_pq.server_nonce,
                                        !.pq = res_pq.pq])
              /\ read_lock' = [read_lock EXCEPT ![SessionOf(p)] = Free]
              /\ UNCHANGED auth_key_lock
    /\ UNCHANGED <<ak, session, callers>>

\* lines 184-209: new_nonce and (p, q) arrive; encrypt_with_hash is awaited
H_Factorize(p, E) ==
    /\ pc[p] = "h_factorize"
    /\ \E new_nonce \in E.nonces :
         Advance(p, "h_encrypt2",
                 [loc[p] EXCEPT !.new_nonce = new_nonce,
                                !.p = factorize(loc[p].pq)[1],
                                !.q = factorize(loc[p].pq)[2]])
    /\ UNCHANGED <<ak, locks, session, callers>>

\* line 209 done: the link write of req_DH_params is awaited (line 202)
H_Encrypt2(p) ==
    /\ pc[p] = "h_encrypt2"
    /\ Advance(p, "h_send2", loc[p])
    /\ UNCHANGED <<ak, locks, session, callers>>

\* line 202 done, line 212 begins; res_pq, pq, p and q are not used after it
H_Send2(p) ==
    SendThenRead(p, "h_send2", "req_DH_params",
                 [loc[p] EXCEPT !.res_pq = None, !.pq = 0, !.p = 0, !.q = 0],
                 "h_wait2", "h_recv2")

\* the checks on the answer to req_DH_params, lines 214-221
CheckParams(params, nonce, server_nonce) ==
    IF params.cons # "server_DH_params_ok" THEN "dh_exchange_failed"
    ELSE IF params.nonce # nonce THEN "params_nonce_mismatch"
    ELSE IF params.server_nonce # server_nonce THEN "params_server_nonce_mismatch"
    ELSE "ok"

\* lines 212-237: params arrives (the read lock is released) and is
\* checked; the four sha1, then decrypt_with_hash and secrets.randbits(2048)
\* are awaited
H_Recv2(p, E) ==
    /\ pc[p] = "h_recv2"
    /\ \E params \in E.params :
         LET e == CheckParams(params, loc[p].nonce, loc[p].server_nonce) IN
         IF e # "ok"
         THEN Raise(p, e)
         ELSE /\ Advance(p, "h_decrypt", [loc[p] EXCEPT !.params = Some(params)])
              /\ read_lock' = [read_lock EXCEPT ![SessionOf(p)] = Free]
              /\ UNCHANGED auth_key_lock
    /\ UNCHANGED <<ak, session, callers>>

\* lines 234-244: (answer_hash, answer) and b arrive; the parse of the
\* answer and its digest are awaited
H_Decrypt(p, E) ==
    /\ pc[p] = "h_decrypt"
    /\ \E b \in E.b : Advance(p, "h_digest", [loc[p] EXCEPT !.b = b])
    /\ UNCHANGED <<ak, locks, session, callers>>

\* a range check that accepts every number
CheckRange_Accepting(x, dh_prime, name) == "ok"

\* the four range checks made on g_a (lines 265-275) and on g_b (282-292)
CheckRange(x, dh_prime, name) ==
    IF x <= 1 THEN name \o "_le_1"
    ELSE IF x >= dh_prime - 1 THEN name \o "_ge_dh_prime_minus_1"
    ELSE IF x < Pow2(DhBits - DhSlack) THEN name \o "_too_small"
    ELSE IF x > dh_prime - Pow2(DhBits - DhSlack) THEN name \o "_too_large"
    ELSE "ok"

\* the checks on the decrypted answer, lines 246-275
CheckInnerData(answer_hash, params2, nonce, server_nonce) ==
    IF answer_hash # AnswerDigest(params2) THEN "answer_hash_mismatch"
    ELSE IF params2.cons # "server_DH_inner_data" THEN "dh_exchange_failed"
    ELSE IF params2.nonce # nonce THEN "params2_nonce_mismatch"
    ELSE IF params2.server_nonce # server_nonce THEN "params2_server_nonce_mismatch"
    ELSE IF ~is_safe_dh_prime(params2.g, params2.dh_prime) THEN "unknown_dh_prime"
    ELSE CheckRange(params2.g_a, params2.dh_prime, "g_a")

\* lines 244-280: the answer is checked; the two pow are awaited.  The
\* decrypted answer and its hash are drawn here, where they are first read
H_Digest(p, E) ==
    /\ pc[p] = "h_digest"
    /\ \E answer_hash \in E.answer_hash, params2 \in E.params2 :
         LET e == CheckInnerData(answer_hash, params2, loc[p].nonce, loc[p].server_nonce) IN
         IF e # "ok"
         THEN Raise(p, e)
         ELSE /\ Advance(p, "h_pow",
                         [loc[p] EXCEPT !.answer_hash = Some(answer_hash),
                                        !.params2 = Some(params2),
                                        !.g = params2.g, !.g_a = params2.g_a,
                                        !.dh_prime = params2.dh_prime])
              /\ UNCHANGED locks
    /\ UNCHANGED <<ak, session, callers>>

\* line 294: the AuthKey field the handshake stores first
StoreAuthKey(a, auth_key) == [a EXCEPT !.auth_key = Some(to_bytes(auth_key))]

\* lines 277-295: g_b and auth_key arrive, g_b is checked, auth_key is
\* stored, and _get_auth_key_id is awaited
H_Pow(p) ==
    /\ pc[p] = "h_pow"
    /\ LET g_b == PowMod(loc[p].g, loc[p].b, loc[p].dh_prime)
           auth_key == PowMod(loc[p].g_a, loc[p].b, loc[p].dh_prime)
           e == CheckRange(g_b, loc[p].dh_prime, "g_b") IN
       IF e # "ok"
       THEN Raise(p, e) /\ ak' = ak
       ELSE /\ ak' = StoreAuthKey(ak, auth_key)
            /\ Advance(p, "h_auth_key_id",
                       [loc[p] EXCEPT !.g_b = g_b])
            /\ UNCHANGED locks
    /\ UNCHANGED <<session, callers>>

\* lines 295-297: auth_key_id and server_salt are stored; _new_session_id is
\* awaited.  xor(new_nonce[:8], server_nonce[:8]) read as a signed integer;
\* new_nonce is not used after it
H_AuthKeyId(p) ==
    /\ pc[p] = "h_auth_key_id"
    /\ ak' = [ak EXCEPT !.auth_key_id = Some(_get_auth_key_id(ak.auth_key[1])),
                        !.server_salt = Some(BitXor(loc[p].new_nonce, loc[p].server_nonce))]
    /\ Advance(p, "h_session_id", [loc[p] EXCEPT !.new_nonce = 0])
    /\ UNCHANGED <<locks, session, callers>>

\* lines 297-313: session_id is stored; encrypt_with_hash is awaited
H_SessionId(p, E) ==
    /\ pc[p] = "h_session_id"
    /\ \E session_id \in E.session_ids : ak' = [ak EXCEPT !.session_id = Some(session_id)]
    /\ Advance(p, "h_encrypt3", loc[p])
    /\ UNCHANGED <<locks, session, callers>>

\* line 313 done: the link write of set_client_DH_params is awaited
H_Encrypt3(p) ==
    /\ pc[p] = "h_encrypt3"
    /\ Advance(p, "h_send3", loc[p])
    /\ UNCHANGED <<ak, locks, session, callers>>

\* line 309 done, line 316 begins
H_Send3(p) ==
    SendThenRead(p, "h_send3", "set_client_DH_params", loc[p], "h_wait3", "h_recv3")

\* lines 316-319; then _create_auth_key returns, its locals are gone, and
\* _get_auth_key releases the lock and returns (line 166)
H_Recv3(p, E) ==
    /\ pc[p] = "h_recv3"
    /\ \E params3 \in E.params3 :
         IF params3 # "dh_gen_ok"
         THEN Raise(p, "dh_exchange_failed")
         ELSE /\ auth_key_lock' = Free
              /\ UNCHANGED <<op, sent>>
              /\ ended' = NoEnd
              /\ AfterGetAuthKey(p, op[p],
                                 [NoLocals EXCEPT !.arg = loc[p].arg,
                                                  !.waited = loc[p].waited],
                                 [read_lock EXCEPT ![SessionOf(p)] = Free])
    /\ UNCHANGED <<ak, session, callers>>

(**************************** message ids *********************************)
\* readings of int(time.time() * 2 ** 30): the wall clock may stand still
\* or step backwards between two calls
ClockReadings == ClockBase..(ClockBase + MaxClock)
RandomBits == 0..(Pow2(RandBits) - 1)

\* a message id taken from the clock alone
MessageId_ClockOnly(last, clock, random) == BitOr(clock, random) * 4

\* _get_message_id, lines 139-145: the value returned and stored
MessageId(last, clock, random) ==
    LET message_id == BitOr(clock, random) * 4 IN
    IF message_id <= last THEN last + 4 ELSE message_id

\* the previous and the latest value returned by _get_message_id
LastTwo(ids, message_id) ==
    IF ids = <<>> THEN <<message_id>> ELSE <<ids[Len(ids)], message_id>>

\* a _get_message_id that returns its value without storing it
GetMessageId_NotStored(m, message_id) ==
    /\ last_message_id' = last_message_id
    /\ returned_ids' = [returned_ids EXCEPT ![m] = LastTwo(@, message_id)]

\* _get_message_id called on session m: lines 144-145
GetMessageId(m, message_id) ==
    /\ last_message_id' = [last_message_id EXCEPT ![m] = message_id]
    /\ returned_ids' = [returned_ids EXCEPT ![m] = LastTwo(@, message_id)]

\* box_message, lines 382-392: synchronous, callable by any coroutine that
\* is not suspended
BoxMessage(p, E) ==
    /\ pc[p] = "idle"
    /\ calls > 0
    /\ calls' = calls - 1
    /\ \E clock \in E.clock, random \in E.random, body \in E.bodies :
         LET message_id == MessageId(last_message_id[SessionOf(p)], clock, random) IN
         /\ GetMessageId(SessionOf(p), message_id)
         /\ boxed' = [boxed EXCEPT ![p] = Some([msg_id |-> message_id, body |-> body,
                                                key_set |-> ak.auth_key # None])]
    /\ UNCHANGED <<ak, locks, last_msg_ids, pc, op, loc, sent, wire>>
    /\ ended' = NoEnd

(******************************* read *************************************)
CorruptedAuthorization == <<108, 254, 255, 255, 108, 254, 255, 255>>
TooManyRequests == <<83, 254, 255, 255, 83, 254, 255, 255>>

\* keys whose ids the peer may send: those a handshake of the model ends
\* with (8 ^ b mod 23 for the b that pass the checks on g_b), the stored
\* key, and one that is nobody's
KeysOnWire == {2, 6, 8, 18, 5}

\* first 8 bytes the link may deliver: the two sentinels, the ids of keys,
\* and an id of no key
AuthKeyIdsOnWire ==
    {CorruptedAuthorization, TooManyRequests, <<0, 0, 0, 0, 0, 0, 0, 0>>}
        \cup {_get_auth_key_id(to_bytes(k)) : k \in KeysOnWire}

\* a read that accepts every first 8 bytes
CheckAuthKeyId_Accepting(server_auth_key_id, auth_key_id) == "ok"

\* the checks on the first 8 bytes, lines 328-335
CheckAuthKeyId(server_auth_key_id, auth_key_id) ==
    IF server_auth_key_id = CorruptedAuthorization THEN "corrupted_authorization"
    ELSE IF server_auth_key_id = TooManyRequests THEN "too_many_requests"
    ELSE IF Some(server_auth_key_id) # auth_key_id THEN "unknown_auth_key_id"
    ELSE "ok"

\* lines 326-337: the 8 bytes arrive and are checked; readn(16) is awaited
R_AuthKeyId(p, E) ==
    /\ pc[p] = "r_auth_key_id"
    /\ \E server_auth_key_id \in E.auth_key_ids :
         LET e == CheckAuthKeyId(server_auth_key_id, loc[p].auth_key_id) IN
         IF e # "ok"
         THEN RaiseOn(p, e, server_auth_key_id)
         ELSE /\ Advance(p, "r_msg_key",
                         [loc[p] EXCEPT !.server_auth_key_id = Some(server_auth_key_id)])
              /\ UNCHANGED locks
    /\ UNCHANGED <<ak, session, callers>>

MsgKeys == 0..1

\* lines 337-342: msg_key arrives; prepare_key and the sha256 update with
\* auth_key_part are awaited
R_MsgKey(p, E) ==
    /\ pc[p] = "r_msg_key"
    /\ \E msg_key \in E.msg_keys :
         Advance(p, "r_prepare_key", [loc[p] EXCEPT !.msg_key = msg_key])
    /\ UNCHANGED <<ak, locks, session, callers>>

\* lines 342-347: the streaming decrypt and parse is awaited
R_PrepareKey(p) ==
    /\ pc[p] = "r_prepare_key"
    /\ Advance(p, "r_message", loc[p])
    /\ UNCHANGED <<ak, locks, session, callers>>

\* message_inner_data_from_server structures the stream may parse to
SaltsOnWire == {Some(0), Some(3)}
ServerMsgIds ==
    {4 * ClockBase + 1, 4 * ClockBase + 5, 4 * ClockBase + 9,
     4 * ClockBase + 2,
     4 * ClockBase - 300 * TicksPerSecond - 3,
     4 * ClockBase + 30 * TicksPerSecond + 61}
MessagesOnWire ==
    [salt : SaltsOnWire, session_id : {Some(i) : i \in SessionIds},
     msg_id : ServerMsgIds, body : {0}]
PaddingLengths == {8, 11, 12, 1023, 1024}

\* a read that accepts every padding length
PaddingOk_Always(padding) == TRUE

\* line 349: len(aes.remaining_plain_buffer()) in range(12, 1024)
PaddingOk(padding) == padding \in 12..1023

\* lines 347-353: the message is parsed and the padding length checked; the
\* sha256 update with the padding and the digest are awaited
R_Message(p, E) ==
    /\ pc[p] = "r_message"
    /\ \E message \in E.messages, padding \in E.paddings :
         IF ~PaddingOk(padding)
         THEN RaiseOn(p, "wrong_padding_length", padding)
         ELSE /\ Advance(p, "r_digest",
                         [loc[p] EXCEPT !.message = message, !.padding = padding])
              /\ UNCHANGED locks
    /\ UNCHANGED <<ak, session, callers>>

\* sha256(auth_key_part + plaintext + padding)[8:24]; a fixed mixing
\* function stands for SHA256
MsgKeyComputed(auth_key, message, padding) ==
    (SumSeq(auth_key[1]) + message.salt[1] + message.session_id[1] + message.msg_id
        + message.body + padding) % 2

\* a replay window that remembers nothing
InWindow_Never(window, msg_id) == FALSE

\* "msg_msg_id in self._last_msg_ids", line 364
InWindow(window, msg_id) == \E i \in 1..Len(window) : window[i] = msg_id

\* deque(maxlen=64).append, line 367
WindowAppend(window, msg_id) ==
    IF Len(window) >= WindowLen THEN Append(Tail(window), msg_id)
    ELSE Append(window, msg_id)

\* the range of line 369
InClockWindow(diff) == diff >= -(300 * TicksPerSecond) /\ diff < 30 * TicksPerSecond

\* the checks on a parsed frame with the session_id looked at first
CheckFrame_SessionFirst(msg_key, msg_key_computed, message, session_id, window) ==
    IF message.session_id # session_id THEN "unknown_session_id"
    ELSE IF msg_key # msg_key_computed THEN "unknown_msg_key"
    ELSE IF message.msg_id % 2 # 1 THEN "need_odd_parity"
    ELSE IF InWindow(window, message.msg_id) THEN "duplicated_message"
    ELSE "ok"

\* the checks of lines 355-365 on a parsed frame, in the order of the code
CheckFrame(msg_key, msg_key_computed, message, session_id, window) ==
    IF msg_key # msg_key_computed THEN "unknown_msg_key"
    ELSE IF message.session_id # session_id THEN "unknown_session_id"
    ELSE IF message.msg_id % 2 # 1 THEN "need_odd_parity"
    ELSE IF InWindow(window, message.msg_id) THEN "duplicated_message"
    ELSE "ok"

\* a read that rejects a frame with another salt
CheckSalt_Fatal(msg_salt, server_salt) ==
    IF msg_salt # server_salt THEN "unknown_salt" ELSE "ok"

\* lines 372-373: a salt other than server_salt is logged, nothing is raised
CheckSalt(msg_salt, server_salt) ==
    IF msg_salt # server_salt THEN "logged" ELSE "ok"

\* the result of the checks of lines 355-365 for the frame p has parsed
FrameCheck(p) ==
    CheckFrame(loc[p].msg_key,
               MsgKeyComputed(loc[p].auth_key, loc[p].message, loc[p].padding),
               loc[p].message, ak.session_id, last_msg_ids[SessionOf(p)])

\* lines 353-378: the digest arrives; msg_key, session_id, parity and the
\* replay window are checked, the msg_id is recorded, a message id is
\* generated for the clock check, the salt is compared, and
\* read_from_string is awaited
R_Digest(p, E) ==
    /\ pc[p] = "r_digest"
    /\ LET m == SessionOf(p)
           message == loc[p].message IN
       IF FrameCheck(p) # "ok"
       THEN /\ Raise(p, FrameCheck(p))
            /\ UNCHANGED session
       ELSE /\ last_msg_ids' = [last_msg_ids EXCEPT ![m] = WindowAppend(@, message.msg_id)]
            /\ \E clock \in E.clock, random \in E.random :
                 LET message_id == MessageId(last_message_id[m], clock, random) IN
                 /\ GetMessageId(m, message_id)
                 /\ IF ~InClockWindow(message.msg_id - message_id)
                    THEN Raise(p, "time_not_synchronised")
                    ELSE IF CheckSalt(message.salt, ak.server_salt) \notin {"ok", "logged"}
                    THEN Raise(p, CheckSalt(message.salt, ak.server_salt))
                    ELSE /\ Advance(p, "r_body", loc[p])
                         /\ UNCHANGED locks
    /\ UNCHANGED <<ak, callers>>

\* lines 378-380: the body is decoded and message.message returned
R_Body(p) ==
    /\ pc[p] = "r_body"
    /\ EndCall(p, "ok")
    /\ ReleaseAll(p)
    /\ UNCHANGED <<ak, session, callers>>

(******************************* write ************************************)
\* lines 405-416: msg_key, the key and the ciphertext arrive, the frame is
\* built and handed to the write of the link, which is awaited
W_Encrypt(p) ==
    /\ pc[p] = "w_encrypt"
    /\ wire' = [wire EXCEPT ![SessionOf(p)] =
                   Append(@, [msg_id |-> loc[p].message.msg_id,
                              body |-> loc[p].message.body,
                              key_set |-> loc[p].arg.key_set,
                              length |-> FrameLen(InnerLen(loc[p].message.body),
                                                  loc[p].padding)])]
    /\ Advance(p, "w_send", loc[p])
    /\ UNCHANGED <<ak, locks, session, boxed, calls>>

\* line 416 done: the link has taken the frame and write returns
W_Send(p) ==
    /\ pc[p] = "w_send"
    /\ EndCall(p, "ok")
    /\ ReleaseAll(p)
    /\ UNCHANGED <<ak, session, callers>>

(************************ failures from outside ***************************)
\* positions at which the coroutine awaits the link
LinkAwaits ==
    {"h_send1", "h_recv1", "h_send2", "h_recv2", "h_send3", "h_recv3",
     "r_auth_key_id", "r_msg_key", "r_message", "w_send"}

\* the link raises (EOF, write failure) into the coroutine awaiting it
TransportError(p) ==
    /\ pc[p] \in LinkAwaits
    /\ Raise(p, "transport_error")
    /\ UNCHANGED <<ak, session, callers>>

\* the task is cancelled: CancelledError is raised at the await it is
\* suspended in
Cancel(p) ==
    /\ pc[p] # "idle"
    /\ Raise(p, "cancelled")
    /\ UNCHANGED <<ak, session, callers>>

(************************ AuthKey life cycle ******************************)
Quiescent == \A p \in Procs : pc[p] = "idle"

\* the sessions go on with auth_key.clone()
Clone ==
    /\ Quiescent
    /\ \E session_id \in SessionIds : ak' = clone(ak, session_id)
    /\ UNCHANGED <<locks, session, pc, op, loc, sent, callers>>
    /\ ended' = NoEnd

\* the AuthKey is pickled and loaded again
Reload ==
    /\ Quiescent
    /\ \E session_id \in SessionIds : ak' = setstate(getstate(ak), session_id)
    /\ UNCHANGED <<locks, session, pc, op, loc, sent, callers>>
    /\ ended' = NoEnd

\* the AuthKey is loaded from the legacy form, the key bytes alone
ReloadLegacy ==
    /\ Quiescent
    /\ ak.auth_key # None
    /\ \E session_id \in SessionIds, random8 \in {0, 3} :
         ak' = setstate_legacy(ak.auth_key[1], session_id, random8)
    /\ UNCHANGED <<locks, session, pc, op, loc, sent, callers>>
    /\ ended' = NoEnd

(*************************** specifications *******************************)
\* MTProto.__init__ (lines 124-133) for each session, around AuthKey a,
\* before the first of n calls
InitWith(a, n) ==
    /\ ak = a
    /\ auth_key_lock = Free
    /\ read_lock = [m \in Sessions |-> Free]
    /\ last_message_id = [m \in Sessions |-> 0]
    /\ last_msg_ids = [m \in Sessions |-> <<>>]
    /\ returned_ids = [m \in Sessions |-> <<>>]
    /\ pc = [p \in Procs |-> "idle"]
    /\ op = [p \in Procs |-> "none"]
    /\ loc = [p \in Procs |-> NoLocals]
    /\ sent = [p \in Procs |-> <<>>]
    /\ ended = NoEnd
    /\ boxed = [p \in Procs |-> None]
    /\ wire = [m \in Sessions |-> <<>>]
    /\ calls = n

\* lengths of the bodies a caller may box; 12 is that of ping{ping_id}
BodyLengths == 0..MaxBody
PingLength == {12}

\* everything the peer, the random source, the wall clock and the callers
\* can supply
Environment ==
    [nonces |-> Nonces, session_ids |-> SessionIds, b |-> 0..MaxB,
     res_pq |-> ResPQs, params |-> ServerDHParams, answer_hash |-> AnswerHashes,
     params2 |-> ServerDHInnerData, params3 |-> DhGenAnswers,
     clock |-> ClockReadings, random |-> RandomBits,
     auth_key_ids |-> AuthKeyIdsOnWire, msg_keys |-> MsgKeys,
     messages |-> MessagesOnWire, paddings |-> PaddingLengths,
     bodies |-> BodyLengths]

Handshake(p, E) ==
    \/ H_Nonce(p, E) \/ H_Send1(p) \/ H_Recv1(p, E) \/ H_Factorize(p, E) \/ H_Encrypt2(p)
    \/ H_Send2(p) \/ H_Recv2(p, E) \/ H_Decrypt(p, E) \/ H_Digest(p, E) \/ H_Pow(p)
    \/ H_AuthKeyId(p) \/ H_SessionId(p, E) \/ H_Encrypt3(p) \/ H_Send3(p) \/ H_Recv3(p, E)

Read(p, E) ==
    \/ R_AuthKeyId(p, E) \/ R_MsgKey(p, E) \/ R_PrepareKey(p) \/ R_Message(p, E)
    \/ R_Digest(p, E) \/ R_Body(p)

Write(p) == W_Encrypt(p) \/ W_Send(p)

\* Spec: three coroutines on two sessions that share an AuthKey constructed
\* empty (AuthKey()).  The handshake sees every answer of the peer; the
\* encrypted frames that follow are drawn from a few
HandshakeEnvironment ==
    [Environment EXCEPT
        !.clock = {ClockBase}, !.random = {0},
        !.auth_key_ids = {TooManyRequests}
                             \cup {_get_auth_key_id(to_bytes(k)) : k \in KeysOnWire},
        !.messages = [salt : {Some(0)}, session_id : {Some(1)},
                      msg_id : {4 * ClockBase + 1}, body : {0}],
        !.paddings = {8, 12},
        !.bodies = PingLength]

Init == InitWith(NewAuthKey(None, None, None, None), MaxCalls)

Next ==
    \E p \in Procs :
        \/ Call(p, "read") \/ Call(p, "write") \/ BoxMessage(p, HandshakeEnvironment)
        \/ AuthKeyLockGranted(p) \/ ReadLockGranted(p)
        \/ Handshake(p, HandshakeEnvironment)
        \/ Read(p, HandshakeEnvironment)
        \/ Write(p)
        \/ TransportError(p) \/ Cancel(p)

Spec == Init /\ [][Next]_vars

\* SpecLive: Spec with a link that answers and an event loop and a thread
\* pool that run what is ready: a coroutine that awaits the link or a
\* thread gets its result, and asyncio.Lock.release wakes a waiter, which
\* then runs.  Calls, errors of the link and cancellations come as they may
Step(p) ==
    \/ Handshake(p, HandshakeEnvironment)
    \/ Read(p, HandshakeEnvironment)
    \/ Write(p)

SpecLive ==
    /\ Spec
    /\ \A p \in Procs :
         /\ WF_vars(Step(p))
         /\ WF_vars(AuthKeyLockGranted(p))
         /\ WF_vars(ReadLockGranted(p))

\* SpecRead: the two coroutines of session A around an AuthKey loaded from
\* its pickled state, the key of an earlier handshake; every frame, clock
\* reading and random value can arrive, the bodies written are pings, and
\* the AuthKey can be cloned and reloaded between calls
ReadProcs == {p \in Procs : SessionOf(p) = "A"}
ReadEnvironment == [Environment EXCEPT !.bodies = PingLength]
StoredKeys == {<<Some(to_bytes(8)), Some(0)>>}

InitRead ==
    \E state \in StoredKeys, session_id \in SessionIds :
        InitWith(setstate(state, session_id), MaxCalls)

NextRead ==
    \/ \E p \in ReadProcs :
        \/ Call(p, "read") \/ Call(p, "write") \/ BoxMessage(p, ReadEnvironment)
        \/ ReadLockGranted(p)
        \/ Read(p, ReadEnvironment)
        \/ Write(p)
        \/ TransportError(p) \/ Cancel(p)
    \/ Clone \/ Reload \/ ReloadLegacy

SpecRead == InitRead /\ [][NextRead]_vars

\* SpecFrame: the coroutine of session B, around a loaded AuthKey, boxes
\* and writes bodies of every length
FrameProcs == {p \in Procs : SessionOf(p) = "B"}

NextFrame ==
    \E p \in FrameProcs :
        \/ BoxMessage(p, Environment) \/ Call(p, "write") \/ Write(p)

SpecFrame == InitRead /\ [][NextFrame]_vars

\* SpecWrite: the coroutines of both sessions, around a loaded AuthKey, box
\* and write MaxCalls pings in all
InitWrite ==
    \E state \in StoredKeys, session_id \in SessionIds :
        InitWith(setstate(state, session_id), 2 * MaxCalls)

NextWrite ==
    \E p \in Procs :
        \/ BoxMessage(p, ReadEnvironment) \/ Call(p, "write") \/ Write(p)

SpecWrite == InitWrite /\ [][NextWrite]_vars

(************************* positions of the code **************************)
\* inside _create_auth_key (lines 168-319), the auth_key_lock held
HandshakePcs ==
    {"h_nonce", "h_send1", "h_wait1", "h_recv1", "h_factorize", "h_encrypt2", "h_send2",
     "h_wait2", "h_recv2", "h_decrypt", "h_digest", "h_pow", "h_auth_key_id",
     "h_session_id", "h_encrypt3", "h_send3", "h_wait3", "h_recv3"}

\* the answer to req_pq has passed its checks, req_DH_params is not sent yet
AfterRound1Pcs == {"h_factorize", "h_encrypt2", "h_send2"}

\* the answer to req_DH_params has passed all its checks (line 292 is
\* behind), set_client_DH_params is not sent yet
AfterRound2Pcs == {"h_auth_key_id", "h_session_id", "h_encrypt3", "h_send3"}

\* inside "async with self._read_message_lock", reading from the link or
\* working on what was read (lines 148-149 and 325-380)
ReadingPcs ==
    {"h_recv1", "h_recv2", "h_recv3",
     "r_auth_key_id", "r_msg_key", "r_prepare_key", "r_message", "r_digest", "r_body"}

\* the frames of a handshake in the order of the code (lines 171, 202, 309)
Frames == <<"req_pq", "req_DH_params", "set_client_DH_params">>

\* the conditions of lines 175-179 on the stored answer to req_pq
ResPQAccepted(l) ==
    /\ l.res_pq # None
    /\ l.res_pq[1].cons = "resPQ"
    /\ OurFingerprint \in l.res_pq[1].server_public_key_fingerprints

\* the conditions of lines 214-221 on the stored answer to req_DH_params
ParamsAccepted(l) ==
    /\ l.params # None
    /\ l.params[1].cons = "server_DH_params_ok"
    /\ l.params[1].nonce = l.nonce
    /\ l.params[1].server_nonce = l.server_nonce

\* the conditions of lines 265-275 and 282-292 on a DH number
InDhRange(x, dh_prime) ==
    /\ x > 1
    /\ x < dh_prime - 1
    /\ x >= Pow2(DhBits - DhSlack)
    /\ x <= dh_prime - Pow2(DhBits - DhSlack)

\* the conditions of lines 246-275 on the stored decrypted answer
InnerDataAccepted(l) ==
    /\ l.params2 # None /\ l.answer_hash # None
    /\ l.answer_hash[1] = AnswerDigest(l.params2[1])
    /\ l.params2[1].cons = "server_DH_inner_data"
    /\ l.params2[1].nonce = l.nonce
    /\ l.params2[1].server_nonce = l.server_nonce
    /\ <<l.params2[1].g, l.params2[1].dh_prime>> \in SafePrimes
    /\ InDhRange(l.params2[1].g_a, l.params2[1].dh_prime)

(******************************* claims ***********************************)
\* C1: a handshake that ends without completing (a failed check, a round-3
\* reply other than dh_gen_ok, a transport failure, a cancellation at any
\* await) leaves AuthKey.auth_key empty, so that the next _get_auth_key
\* starts again from req_pq.
C1_FailedHandshakeLeavesKeyEmpty ==
    [][\A p \in Procs :
          pc[p] \in HandshakePcs /\ pc'[p] = "idle" => ak'.auth_key = None]_vars

\* C2 as stated: of the calls that start on an empty AuthKey one runs the
\* handshake; a call that had to wait for auth_key_lock never runs it and
\* sends no handshake frame.
C2_WaiterNeverRunsHandshake ==
    \A p \in Procs : loc[p].waited => pc[p] \notin HandshakePcs /\ sent[p] = <<>>

\* C2, amended: at most one coroutine is inside _create_auth_key and it
\* holds auth_key_lock; a call that waited for the lock and gets it runs the
\* handshake itself exactly when auth_key is still empty at that moment, and
\* otherwise goes on with the stored key without sending a handshake frame.
C2_OneHandshakePerAuthKey ==
    [][/\ Cardinality({p \in Procs : pc'[p] \in HandshakePcs}) <= 1
       /\ \A p \in Procs : pc'[p] \in HandshakePcs => auth_key_lock' = p
       /\ \A p \in Procs :
            pc[p] = "k_wait" /\ pc'[p] \notin {"k_wait", "idle"} =>
                IF ak.auth_key = None
                THEN pc'[p] = "h_nonce"
                ELSE pc'[p] \notin HandshakePcs /\ sent'[p] = <<>>
       /\ \A p \in Procs :
            pc[p] \notin HandshakePcs /\ pc'[p] \in HandshakePcs =>
                ak.auth_key = None /\ pc'[p] = "h_nonce"]_vars

\* C2 witness: a call that waited for the lock goes on with the key that
\* the handshake of another call stored, having sent nothing
C2_Witness ==
    \E p \in Procs :
        /\ loc[p].waited /\ sent[p] = <<>>
        /\ pc[p] \in {"r_wait", "r_auth_key_id", "w_encrypt"}
        /\ loc[p].auth_key # None

\* C3: in every reachable state auth_key_id is empty exactly when auth_key
\* is empty, and otherwise is the last 8 bytes of SHA1(auth_key).
C3_AuthKeyIdDerived ==
    /\ ak.auth_key_id = None <=> ak.auth_key = None
    /\ ak.auth_key # None /\ ak.auth_key_id # None =>
           ak.auth_key_id[1] = _get_auth_key_id(ak.auth_key[1])

\* C5: the frames a call has sent are a prefix of req_pq, req_DH_params,
\* set_client_DH_params; req_DH_params is sent only from the position
\* reached with an answer to req_pq that passed lines 175-179, and
\* set_client_DH_params only from the position reached with an answer to
\* req_DH_params that passed lines 214-292.
C5_HandshakeFramesInOrder ==
    \A p \in Procs :
        /\ Len(sent[p]) <= 3 /\ sent[p] = SubSeq(Frames, 1, Len(sent[p]))
        /\ pc[p] \in {"h_nonce", "h_send1"} => Len(sent[p]) = 0
        /\ pc[p] \in {"h_wait1", "h_recv1"} \cup AfterRound1Pcs => Len(sent[p]) = 1
        /\ pc[p] \in AfterRound1Pcs => ResPQAccepted(loc[p])
        /\ pc[p] \in {"h_wait2", "h_recv2", "h_decrypt", "h_digest", "h_pow"}
                        \cup AfterRound2Pcs => Len(sent[p]) = 2
        /\ pc[p] \in AfterRound2Pcs =>
               /\ ParamsAccepted(loc[p]) /\ InnerDataAccepted(loc[p])
               /\ InDhRange(loc[p].g_b, loc[p].dh_prime)
        /\ pc[p] \in {"h_wait3", "h_recv3"} => Len(sent[p]) = 3
        /\ pc[p] \notin HandshakePcs => Len(sent[p]) \in {0, 3}

\* C5 witness: the three frames are out and the answer to the third awaited
C5_Witness == \E p \in Procs : pc[p] = "h_recv3" /\ sent[p] = Frames

\* C6: a handshake goes on past a check of round 2 only with an answer that
\* passes it; when it ends in round 2 (a failed check included) it has sent
\* no set_client_DH_params and the AuthKey is as before, auth_key empty.
C6_Round2FailureLeavesKeyEmpty ==
    [][\A p \in Procs :
          pc[p] \in {"h_recv2", "h_digest", "h_pow"} /\ pc'[p] # pc[p] =>
              IF pc'[p] = "idle"
              THEN /\ ak' = ak /\ ak'.auth_key = None /\ ak'.auth_key_id = None
                   /\ sent[p] = SubSeq(Frames, 1, 2)
              ELSE /\ ParamsAccepted(loc'[p])
                   /\ pc[p] \in {"h_digest", "h_pow"} => InnerDataAccepted(loc'[p])
                   /\ pc[p] = "h_pow" => InDhRange(loc'[p].g_b, loc'[p].dh_prime)]_vars

\* C6 witness: a handshake has just failed on the dh_prime of the round-2
\* answer, the key still empty
C6_Witness == ended[2] = "unknown_dh_prime" /\ ak.auth_key = None

\* C7: per MTProto object at most one coroutine is inside the read lock,
\* whether in read or in a handshake's _read_unencrypted_message, and it is
\* the holder of _read_message_lock.
C7_OneReadInFlight ==
    \A m \in Sessions :
        /\ Cardinality({p \in Procs : SessionOf(p) = m /\ pc[p] \in ReadingPcs}) <= 1
        /\ \A p \in Procs : SessionOf(p) = m /\ pc[p] \in ReadingPcs => read_lock[m] = p

\* C7 witness: one read is in flight while another read call of the same
\* object waits for the lock
C7_Witness ==
    \E p, q \in Procs :
        /\ p # q /\ SessionOf(p) = SessionOf(q)
        /\ pc[p] \in ReadingPcs /\ pc[q] = "r_wait"

\* C4: the values _get_message_id returns on one MTProto object, to
\* box_message or to read, are multiples of 4 and each is at least 4 above
\* the one before, whatever the clock reads.
C4_MessageIdsIncrease ==
    \A m \in Sessions :
        /\ \A i \in 1..Len(returned_ids[m]) : returned_ids[m][i] % 4 = 0
        /\ Len(returned_ids[m]) = 2 => returned_ids[m][2] >= returned_ids[m][1] + 4
        /\ returned_ids[m] # <<>> =>
               last_message_id[m] = returned_ids[m][Len(returned_ids[m])]

\* C4 witness: box_message and a read have both drawn message ids, and the
\* latest is the one before plus 4: the clock reading was not above it
C4_Witness ==
    \E p \in Procs :
        /\ boxed[p] # None /\ last_msg_ids[SessionOf(p)] # <<>>
        /\ Len(returned_ids[SessionOf(p)]) = 2
        /\ returned_ids[SessionOf(p)][2] = returned_ids[SessionOf(p)][1] + 4

\* C8: a frame that passes the msg_key, session_id and parity checks with a
\* msg_id in the replay window ends the read with the duplicated-message
\* error and the window as it was; a frame that goes on to be returned was
\* not in the window and is in it afterwards.
C8_ReplayRejected ==
    [][\A p \in Procs :
          LET m == SessionOf(p)
              message == loc[p].message
              seen == \E i \in 1..Len(last_msg_ids[m]) : last_msg_ids[m][i] = message.msg_id
              passes == /\ loc[p].msg_key =
                               MsgKeyComputed(loc[p].auth_key, message, loc[p].padding)
                        /\ message.session_id = ak.session_id
                        /\ message.msg_id % 2 = 1 IN
          /\ pc[p] = "r_digest" /\ pc'[p] # "r_digest" /\ ended'[2] # "cancelled"
                 /\ passes /\ seen =>
                 /\ ended' = <<p, "duplicated_message", None>>
                 /\ last_msg_ids' = last_msg_ids
          /\ pc[p] = "r_digest" /\ pc'[p] = "r_body" =>
                 /\ passes /\ ~seen
                 /\ \E i \in 1..Len(last_msg_ids'[m]) : last_msg_ids'[m][i] = message.msg_id]_vars

\* C8 witness: a read has just failed with the duplicated-message error
C8_Witness ==
    /\ ended[2] = "duplicated_message"
    /\ last_msg_ids[SessionOf(ended[1])] # <<>>

\* C9: first 8 bytes equal to 6C FE FF FF 6C FE FF FF end the read with the
\* corrupted-authorization error, 53 FE FF FF 53 FE FF FF with the flood
\* error, any other value that is not our auth_key_id with the
\* unknown-auth-key-id error; the read ends there (msg_key is not read), the
\* read lock is released, the replay window and the message-id clock are as
\* before.  A read that goes on to msg_key has read our auth_key_id.
C9_AuthKeyIdSentinels ==
    [][\A p \in Procs :
          /\ pc[p] = "r_auth_key_id" /\ ended'[1] = p /\ ended'[3] # None =>
                 /\ ended'[2] =
                        IF ended'[3][1] = <<108, 254, 255, 255, 108, 254, 255, 255>>
                        THEN "corrupted_authorization"
                        ELSE IF ended'[3][1] = <<83, 254, 255, 255, 83, 254, 255, 255>>
                        THEN "too_many_requests"
                        ELSE "unknown_auth_key_id"
                 /\ ended'[3] # loc[p].auth_key_id
                        \/ ended'[2] # "unknown_auth_key_id"
                 /\ pc'[p] = "idle"
                 /\ read_lock'[SessionOf(p)] # p
                 /\ last_msg_ids' = last_msg_ids
                 /\ last_message_id' = last_message_id
          /\ pc[p] = "r_auth_key_id" /\ pc'[p] = "r_msg_key" =>
                 /\ loc'[p].server_auth_key_id = loc[p].auth_key_id
                 /\ loc'[p].server_auth_key_id[1] \notin
                        {<<108, 254, 255, 255, 108, 254, 255, 255>>,
                         <<83, 254, 255, 255, 83, 254, 255, 255>>}]_vars

\* C9 witness: a read has just failed on the corrupted-authorization
\* sentinel and the read lock is free
C9_Witness ==
    /\ ended[2] = "corrupted_authorization"
    /\ read_lock[SessionOf(ended[1])] = Free

\* C10: a read whose frame has a padding length outside [12, 1024) ends with
\* the wrong-padding-length error; no step of the read up to there changes
\* the replay window, the last message id or a field of the AuthKey.  A read
\* that goes on past the check has a padding length inside the range.
C10_WrongPaddingLength ==
    [][\A p \in Procs :
          /\ pc[p] = "r_message" /\ ended'[1] = p /\ ended'[3] # None =>
                 /\ ended'[3][1] \notin 12..1023
                 /\ ended'[2] = "wrong_padding_length"
          /\ pc[p] = "r_message" /\ pc'[p] = "r_digest" => loc'[p].padding \in 12..1023
          /\ pc[p] \in {"idle", "r_wait", "r_auth_key_id", "r_msg_key", "r_prepare_key",
                        "r_message"} /\ pc'[p] # pc[p] =>
                 /\ ak' = ak
                 /\ last_msg_ids' = last_msg_ids
                 /\ last_message_id' = last_message_id]_vars

\* C10 witness: a read has just failed on a padding of 8 bytes
C10_Witness == ended[2] = "wrong_padding_length" /\ ended[3] = Some(8)

\* C11: a frame whose salt differs from server_salt and which passes every
\* other check (msg_key, session_id, parity, replay window, clock window) is
\* not rejected: the read goes on to decode the body of that very message
\* and returns, as for a frame with the matching salt, and the AuthKey,
\* server_salt included, is left as it was.
C11_SaltMismatchNotRejected ==
    [][\A p \in Procs :
          LET m == SessionOf(p)
              message == loc[p].message IN
          /\ pc[p] = "r_digest" /\ pc'[p] # "r_digest" /\ ended'[2] # "cancelled"
                 /\ FrameCheck(p) = "ok"
                 /\ InClockWindow(message.msg_id - last_message_id'[m]) =>
                 /\ pc'[p] = "r_body"
                 /\ loc'[p].message = message
                 /\ ak' = ak
          /\ pc[p] = "r_body" /\ pc'[p] # "r_body" /\ ended'[2] # "cancelled" =>
                 /\ ended' = <<p, "ok", None>>
                 /\ ak' = ak]_vars

\* C11 witness: a read is decoding the body of a frame whose salt is not
\* server_salt
C11_Witness ==
    \E p \in Procs :
        /\ pc[p] = "r_body"
        /\ loc[p].message.salt # ak.server_salt

\* C12 as stated: every frame write puts on the link is
\* 8 + 16 + ceil((32 + len(body)) / 16) * 16 bytes long.
C12_FrameLengthAsStated ==
    \A m \in Sessions : \A i \in 1..Len(wire[m]) :
        wire[m][i].length = 8 + 16 + ((32 + wire[m][i].body + 15) \div 16) * 16

\* C12, amended: every frame write puts on the link is
\* 8 + 16 + ceil((32 + len(body) + 12) / 16) * 16 bytes long: 8 of auth_key_id,
\* 16 of msg_key, and a ciphertext of the 32 + len(body) bytes of the inner
\* data and a padding of 12 to 27 bytes that makes it a multiple of 16.
C12_FrameLength ==
    \A m \in Sessions : \A i \in 1..Len(wire[m]) :
        LET frame == wire[m][i]
            ciphertext == frame.length - 8 - 16
            padding == ciphertext - (32 + frame.body) IN
        /\ frame.length = 8 + 16 + ((32 + frame.body + 12 + 15) \div 16) * 16
        /\ padding \in 12..27
        /\ ciphertext % 16 = 0

\* C12 witness: the frame of the longest body has been written
C12_Witness ==
    \E m \in Sessions : \E i \in 1..Len(wire[m]) : wire[m][i].body = MaxBody

\* C13: auth_key_lock is held only by a coroutine that is inside
\* _create_auth_key, and the read lock of a session only by a coroutine of
\* that session inside read or _read_unencrypted_message: once the call has
\* ended, by returning, by an error or by cancellation, it holds neither.
C13_LocksReleased ==
    \A p \in Procs :
        /\ auth_key_lock = p => pc[p] \in HandshakePcs
        /\ \A m \in Sessions :
             read_lock[m] = p => SessionOf(p) = m /\ pc[p] \in ReadingPcs

\* C13 witness: a handshake has just ended with an error of the link, which
\* it was awaiting with auth_key_lock held, and the lock is free
C13_Witness ==
    /\ ended[2] = "transport_error"
    /\ ak.auth_key = None
    /\ pc[ended[1]] = "idle"
    /\ auth_key_lock = Free
    /\ read_lock[SessionOf(ended[1])] = Free

\* C14: once auth_key is not empty, no step of a read, a write, a
\* box_message or a handshake, on either session of the AuthKey, changes it.
C14_AuthKeyWrittenOnce ==
    [][ak.auth_key # None => ak'.auth_key = ak.auth_key]_vars

\* C14 witness: with auth_key stored, a call that sent no handshake frame
\* has got the key from _get_auth_key and goes on to read or write
C14_Witness ==
    \E p \in Procs :
        /\ ak.auth_key # None
        /\ pc[p] \in {"r_auth_key_id", "w_encrypt"}
        /\ sent[p] = <<>>

\* C15: a read goes past the padding check only with a padding length in
\* [12, 1024); it then ends with the error of the first check that fails in
\* the order msg_key, session_id, odd msg_id, replay window, clock window
\* (msg_id minus the message id generated for the check), and goes on to
\* decode the body only if none fails; a read returns a message only from
\* there.
C15_ChecksInOrder ==
    [][\A p \in Procs :
          LET m == SessionOf(p)
              message == loc[p].message
              first_failing ==
                  IF loc[p].msg_key # MsgKeyComputed(loc[p].auth_key, message, loc[p].padding)
                  THEN "unknown_msg_key"
                  ELSE IF message.session_id # ak.session_id THEN "unknown_session_id"
                  ELSE IF message.msg_id % 2 = 0 THEN "need_odd_parity"
                  ELSE IF \E i \in 1..Len(last_msg_ids[m]) :
                              last_msg_ids[m][i] = message.msg_id
                  THEN "duplicated_message"
                  ELSE IF ~(/\ message.msg_id - last_message_id'[m] >= -(300 * TicksPerSecond)
                            /\ message.msg_id - last_message_id'[m] < 30 * TicksPerSecond)
                  THEN "time_not_synchronised"
                  ELSE "ok" IN
          /\ pc[p] = "r_message" /\ pc'[p] = "r_digest" => loc'[p].padding \in 12..1023
          /\ pc[p] = "r_digest" /\ pc'[p] # "r_digest" /\ ended'[2] # "cancelled" =>
                 IF first_failing = "ok"
                 THEN pc'[p] = "r_body" /\ ended'[1] # p
                 ELSE ended' = <<p, first_failing, None>>
          /\ pc'[p] = "r_body" => pc[p] \in {"r_digest", "r_body"}
          /\ op[p] = "read" /\ ended' = <<p, "ok", None>> => pc[p] = "r_body"]_vars

\* C15 witness: a read is about to check a frame of which neither the
\* msg_key nor the session_id nor the parity of the msg_id is right
C15_Witness ==
    \E p \in Procs :
        /\ pc[p] = "r_digest"
        /\ loc[p].msg_key #
               MsgKeyComputed(loc[p].auth_key, loc[p].message, loc[p].padding)
        /\ loc[p].message.session_id # ak.session_id
        /\ loc[p].message.msg_id % 2 = 0

\* C16 as stated: the msg_id of every encrypted frame handed to the link was
\* made by _get_message_id when auth_key was already set, also for the
\* first frame written on an AuthKey that starts empty.
C16_KeyBeforeMessageId ==
    \A m \in Sessions : \A i \in 1..Len(wire[m]) : wire[m][i].key_set

\* C17: the locks do not deadlock.  In no reachable state is every pending
\* coroutine waiting for a lock that another one holds, and, with a link
\* that answers and fair scheduling, every call that has started returns or
\* fails.
C17_NoDeadlock ==
    /\ [](LET pending == {p \in Procs : pc[p] # "idle"}
              blocked == {p \in Procs :
                             \/ pc[p] = "k_wait" /\ auth_key_lock # Free
                             \/ /\ pc[p] \in ReadLockWaitPcs
                                /\ read_lock[SessionOf(p)] # Free} IN
          pending # {} => pending # blocked)
    /\ \A p \in Procs : (pc[p] # "idle") ~> (pc[p] = "idle")

\* C17 witness: a coroutine waits for auth_key_lock while the one that
\* holds it awaits the link with the read lock of its session held too, and
\* no other call is pending
C17_Witness ==
    \E p \in Procs, q \in Procs :
        /\ auth_key_lock = p
        /\ read_lock[SessionOf(p)] = p
        /\ pc[q] = "k_wait"
        /\ \A r \in Procs \ {p, q} : pc[r] = "idle"

\* C18 as stated: the replay window holds at most WindowLen (the source's
\* 64) msg_ids and none twice, and a read that ends with an error, the
\* clock-unsynchronised error included, leaves the replay window and the
\* last generated message id as they were, so that every msg_id in the
\* window is that of a frame read has returned.
C18_FailedReadLeavesWindow ==
    [][/\ \A m \in Sessions :
            /\ Len(last_msg_ids'[m]) <= WindowLen
            /\ \A i, j \in 1..Len(last_msg_ids'[m]) :
                 last_msg_ids'[m][i] = last_msg_ids'[m][j] => i = j
       /\ \A p \in Procs :
            op[p] = "read" /\ ended'[1] = p /\ ended'[2] # "ok" =>
                /\ last_msg_ids' = last_msg_ids
                /\ last_message_id' = last_message_id]_vars

\* C19 as stated: req_DH_params is handed to the link only by a handshake
\* whose resPQ carries the nonce the client sent in req_pq.
C19_ResPQEchoesNonce ==
    [][\A p \in Procs :
          Len(sent'[p]) = 2 /\ Len(sent[p]) = 1 =>
              /\ loc[p].res_pq # None
              /\ loc[p].res_pq[1].nonce = loc[p].nonce]_vars

\* C20 as stated: on every link the encrypted frames are handed over in
\* strictly increasing msg_id order, whatever the interleaving of the
\* box_message and write calls of the coroutines that use the MTProto object.
C20_FramesInOrder ==
    \A m \in Sessions : \A i, j \in 1..Len(wire[m]) :
        i < j => wire[m][i].msg_id < wire[m][j].msg_id

\* C20, amended: on the link of an MTProto object that a single coroutine
\* uses, which hands each message to write before it boxes the next and
\* awaits the write, the encrypted frames are handed over in strictly
\* increasing msg_id order.
C20_SerializedFramesInOrder ==
    \A m \in Sessions :
        (\A p, q \in Procs : SessionOf(p) = m /\ SessionOf(q) = m => p = q) =>
            \A i, j \in 1..Len(wire[m]) :
                i < j => wire[m][i].msg_id < wire[m][j].msg_id

\* C20 witness: the single coroutine of session B has written two frames
C20_Witness == Len(wire["B"]) = 2

=============================================================================
